---- MODULE Spec2Model ----
(***************************************************************************)
(* PDF text extraction and header normalization (src/main.py).            *)
(*                                                                         *)
(* Text is a sequence of one-character strings.  Four specifications:      *)
(*   SpecNormalize  normalize_headers, one re.sub call per step            *)
(*   SpecExtract    extract_text_with_pdfplumber                           *)
(*   SpecService    the POST /extract handler                              *)
(*   SpecBatch      the __main__ batch run                                 *)
(***************************************************************************)
EXTENDS Integers, Sequences, FiniteSets, TLC

(***************************************************************************)
(* Bounds of the model.                                                    *)
(***************************************************************************)
MaxTextLen == 3
MaxFields == 2
MaxAliases == 1
MaxPages == 2
MaxFiles == 2

(***************************************************************************)
(* State.                                                                  *)
(***************************************************************************)
VARIABLES
  n_pc,        \* normalizer: "idle", "loop", "returned", "again"
  n_input,     \* the text normalize_headers was called with
  n_config,    \* the header config
  n_text,      \* the local variable text
  n_origin,    \* for each character of n_text, its index in n_input (0: inserted)
  n_k,         \* index of the next (canonical_name, alias) pair
  n_lastText,  \* text before the last re.sub call
  n_lastAlias, \* alias of the last re.sub call
  n_lastMatches, \* start positions the last re.sub call replaced
  n_out1,      \* result of the call
  n_out2       \* result of calling normalize_headers on n_out1

n_vars == <<n_pc, n_input, n_config, n_text, n_origin, n_k, n_lastText,
            n_lastAlias, n_lastMatches, n_out1, n_out2>>

VARIABLES
  e_pc,      \* extractor: "idle", "open", "pages", "except", "returned"
  e_pdf,     \* the file at e_path
  e_n,       \* number of the next page, i+1
  e_text,    \* the local variable text
  e_result   \* the returned string

e_vars == <<e_pc, e_pdf, e_n, e_text, e_result>>

VARIABLES
  s_pc,          \* handler: "idle", "check", "save", "extract", "load",
                 \* "normalize", "return", "except", "finally", "done"
  s_filename,    \* file.filename
  s_pdf,         \* the uploaded file
  s_tmp_created, \* NamedTemporaryFile created the temporary file
  s_tmp_exists,  \* the temporary file is on disk
  s_text,        \* the local variable text
  s_config,      \* the local variable config
  s_normalized,  \* the local variable normalized_text
  s_exc,         \* str(e) of the exception being handled
  s_steps,       \* the steps of the handler that were attempted
  s_response     \* the HTTP response

s_vars == <<s_pc, s_filename, s_pdf, s_tmp_created, s_tmp_exists, s_text,
            s_config, s_normalized, s_exc, s_steps, s_response>>

VARIABLES
  b_pc,      \* batch run: "idle", "find", "load", "loop", "done", "exited",
             \* "crashed"
  b_tree,    \* the files under base_dir
  b_pdfs,    \* the list find_all_pdfs returned
  b_i,       \* index of the next PDF of the loop
  b_config,  \* the loaded header config
  b_out,     \* the output directory: output path -> content
  b_writes   \* the writes of the loop, in order

b_vars == <<b_pc, b_tree, b_pdfs, b_i, b_config, b_out, b_writes>>

vars == <<n_vars, e_vars, s_vars, b_vars>>

(***************************************************************************)
(* Characters and strings.                                                 *)
(***************************************************************************)
LowerCaseOf ==
  [A |-> "a", B |-> "b", C |-> "c", D |-> "d", E |-> "e", F |-> "f",
   G |-> "g", H |-> "h", I |-> "i", J |-> "j", K |-> "k", L |-> "l",
   M |-> "m", N |-> "n", O |-> "o", P |-> "p", Q |-> "q", R |-> "r",
   S |-> "s", T |-> "t", U |-> "u", V |-> "v", W |-> "w", X |-> "x",
   Y |-> "y", Z |-> "z"]

\* str.lower() on one character
LowerChar(c) == IF c \in DOMAIN LowerCaseOf THEN LowerCaseOf[c] ELSE c

\* str.lower()
Lower(s) == [i \in 1..Len(s) |-> LowerChar(s[i])]

\* the regex class \w on the characters the model uses
IsWordChar(c) ==
  \/ c \in DOMAIN LowerCaseOf
  \/ c \in {LowerCaseOf[u] : u \in DOMAIN LowerCaseOf}
  \/ c \in {"0", "1", "2", "3", "4", "5", "6", "7", "8", "9", "_"}

\* str.endswith
EndsWith(s, suffix) ==
  /\ Len(s) >= Len(suffix)
  /\ SubSeq(s, Len(s) - Len(suffix) + 1, Len(s)) = suffix

RECURSIVE Concat(_)
\* "".join(parts)
Concat(parts) ==
  IF parts = <<>> THEN <<>> ELSE Head(parts) \o Concat(Tail(parts))

\* all sequences over S of length lo..hi
SeqsOf(S, lo, hi) == UNION {[1..n -> S] : n \in lo..hi}

(***************************************************************************)
(* The regular expressions normalize_headers builds, and re.sub.           *)
(***************************************************************************)
\* dict.get(key, default)
Get(d, key, default) == IF key \in DOMAIN d THEN d[key] ELSE default

\* the pattern without the word-boundary anchors (a plausible slip)
PatternUnanchored(alias, whole_word_match) == [lit |-> alias, wb |-> FALSE]

\* r"\b{}\b".format(re.escape(alias)) or re.escape(alias): the alias taken
\* literally, anchored at word boundaries when whole_word_match
Pattern(alias, whole_word_match) == [lit |-> alias, wb |-> whole_word_match]

\* whether text[i] exists and is a word character
WordAt(text, i) == i \in 1..Len(text) /\ IsWordChar(text[i])

\* \b between text[g] and text[g+1]: exactly one side is a word character
WordBoundary(text, g) == WordAt(text, g) # WordAt(text, g + 1)

\* one pattern character against one text character under the flags
CharMatches(pc, tc, ignorecase) ==
  IF ignorecase THEN LowerChar(pc) = LowerChar(tc) ELSE pc = tc

\* the pattern matches text at start position p
MatchAt(pattern, text, p, ignorecase) ==
  LET n == Len(pattern.lit) IN
  /\ p >= 1
  /\ p + n - 1 <= Len(text)
  /\ \A i \in 1..n : CharMatches(pattern.lit[i], text[p + i - 1], ignorecase)
  /\ pattern.wb => WordBoundary(text, p - 1) /\ WordBoundary(text, p + n - 1)

\* the leftmost start position >= from where the pattern matches, 0 if none
NextMatch(pattern, text, ignorecase, from) ==
  LET found == {p \in from..(Len(text) - Len(pattern.lit) + 1) :
                  MatchAt(pattern, text, p, ignorecase)}
  IN IF found = {} THEN 0 ELSE CHOOSE p \in found : \A q \in found : p <= q

RECURSIVE ScanFrom(_, _, _, _)
\* the scan goes on right after each match
ScanFrom(pattern, text, ignorecase, from) ==
  LET p == NextMatch(pattern, text, ignorecase, from) IN
  IF p = 0 THEN <<>>
  ELSE <<p>> \o ScanFrom(pattern, text, ignorecase, p + Len(pattern.lit))

\* start positions of the leftmost non-overlapping matches, as re.sub scans
\* them (patterns are non-empty literals)
re_finditer(pattern, text, ignorecase) == ScanFrom(pattern, text, ignorecase, 1)

RECURSIVE RewriteFrom(_, _, _, _, _)
RewriteFrom(s, matches, n, ins, p) ==
  IF matches = <<>> THEN SubSeq(s, p, Len(s))
  ELSE SubSeq(s, p, Head(matches) - 1) \o ins
         \o RewriteFrom(s, Tail(matches), n, ins, Head(matches) + n)

\* s with the n elements at each match position replaced by ins
Rewrite(s, matches, n, ins) == RewriteFrom(s, matches, n, ins, 1)

\* re.sub(pattern, repl, text, flags=flags); repl holds no backslash, so it
\* is inserted as it stands
re_sub(pattern, repl, text, ignorecase) ==
  Rewrite(text, re_finditer(pattern, text, ignorecase), Len(pattern.lit), repl)

(***************************************************************************)
(* Header configs.                                                         *)
(***************************************************************************)
OptionKeys == {"case_insensitive", "whole_word_match"}

\* the fallback config of the service: {"canonical_fields": {}, "options": {}}
NoOptions == [k \in {} |-> TRUE]
FallbackConfig == [canonical_fields |-> <<>>, options |-> NoOptions]

\* a built-in field table used when the config names no field (a plausible slip)
CanonicalFieldsDefaulted(config) ==
  IF config.canonical_fields = <<>>
  THEN <<[name |-> <<"X">>, aliases |-> <<<<"a">>>>]>>
  ELSE config.canonical_fields

\* config.get("canonical_fields", {}), in the dict's iteration order
CanonicalFields(config) == config.canonical_fields

\* options.get("case_insensitive", True)
CaseInsensitive(config) == Get(config.options, "case_insensitive", TRUE)

\* options.get("whole_word_match", True)
WholeWordMatch(config) == Get(config.options, "whole_word_match", TRUE)

RECURSIVE FieldPairs(_, _)
FieldPairs(name, aliases) ==
  IF aliases = <<>> THEN <<>>
  ELSE <<[name |-> name, alias |-> Head(aliases)]>> \o FieldPairs(name, Tail(aliases))

RECURSIVE PairsOf(_)
PairsOf(fields) ==
  IF fields = <<>> THEN <<>>
  ELSE FieldPairs(Head(fields).name, Head(fields).aliases) \o PairsOf(Tail(fields))

\* the (canonical_name, alias) pairs in the order the two nested loops visit
Pairs(config) == PairsOf(CanonicalFields(config))

\* one iteration of the inner loop
SubstituteAlias(text, pair, config) ==
  re_sub(Pattern(pair.alias, WholeWordMatch(config)), pair.name, text,
         CaseInsensitive(config))

RECURSIVE NormalizeFrom(_, _, _, _)
NormalizeFrom(text, pairs, k, config) ==
  IF k > Len(pairs) THEN text
  ELSE NormalizeFrom(SubstituteAlias(text, pairs[k], config), pairs, k + 1, config)

\* normalize_headers(text, config)
normalize_headers(text, config) == NormalizeFrom(text, Pairs(config), 1, config)

(***************************************************************************)
(* Inputs of the normalizer.                                               *)
(***************************************************************************)
TextChars == {"a", "A", "."}
Texts == SeqsOf(TextChars, 0, MaxTextLen)
AliasPool == {<<"a">>, <<"a", ".">>, <<".", "a">>}
CanonicalNames == {<<"X">>, <<"X", "a">>}
OptionSets == {NoOptions} \cup [OptionKeys -> BOOLEAN]
\* alias lists without repetition
AliasLists ==
  {lst \in SeqsOf(AliasPool, 0, MaxAliases) :
     \A i, j \in 1..Len(lst) : i # j => lst[i] # lst[j]}
Fields == [name : CanonicalNames, aliases : AliasLists]
\* a dict holds each canonical name once
FieldLists ==
  {fs \in SeqsOf(Fields, 0, MaxFields) :
     \A i, j \in 1..Len(fs) : i # j => fs[i].name # fs[j].name}
Configs == [canonical_fields : FieldLists, options : OptionSets]


NormIdle ==
  /\ n_pc = "idle"
  /\ n_input = <<>>
  /\ n_config = FallbackConfig
  /\ n_text = <<>>
  /\ n_origin = <<>>
  /\ n_k = 1
  /\ n_lastText = <<>>
  /\ n_lastAlias = <<>>
  /\ n_lastMatches = <<>>
  /\ n_out1 = <<>>
  /\ n_out2 = <<>>

NormInit ==
  /\ n_pc = "loop"
  /\ n_input \in Texts
  /\ n_config \in Configs
  /\ n_text = n_input
  /\ n_origin = [i \in 1..Len(n_input) |-> i]
  /\ n_k = 1
  /\ n_lastText = <<>>
  /\ n_lastAlias = <<>>
  /\ n_lastMatches = <<>>
  /\ n_out1 = <<>>
  /\ n_out2 = <<>>

\* lines 72-79: one alias of one field
NormSubstitute ==
  /\ n_pc = "loop"
  /\ n_k <= Len(Pairs(n_config))
  /\ LET pair == Pairs(n_config)[n_k]
         pattern == Pattern(pair.alias, WholeWordMatch(n_config))
         matches == re_finditer(pattern, n_text, CaseInsensitive(n_config))
     IN /\ n_text' = SubstituteAlias(n_text, pair, n_config)
        /\ n_origin' = Rewrite(n_origin, matches, Len(pair.alias),
                               [i \in 1..Len(pair.name) |-> 0])
        /\ n_lastText' = n_text
        /\ n_lastAlias' = pair.alias
        /\ n_lastMatches' = matches
  /\ n_k' = n_k + 1
  /\ UNCHANGED <<n_pc, n_input, n_config, n_out1, n_out2>>
  /\ UNCHANGED <<e_vars, s_vars, b_vars>>

\* line 81: return text
NormReturn ==
  /\ n_pc = "loop"
  /\ n_k > Len(Pairs(n_config))
  /\ n_pc' = "returned"
  /\ n_out1' = n_text
  /\ UNCHANGED <<n_input, n_config, n_text, n_origin, n_k, n_lastText,
                 n_lastAlias, n_lastMatches, n_out2>>
  /\ UNCHANGED <<e_vars, s_vars, b_vars>>

\* normalize_headers applied to its own result
NormAgain ==
  /\ n_pc = "returned"
  /\ n_pc' = "again"
  /\ n_out2' = normalize_headers(n_out1, n_config)
  /\ UNCHANGED <<n_input, n_config, n_text, n_origin, n_k, n_lastText,
                 n_lastAlias, n_lastMatches, n_out1>>
  /\ UNCHANGED <<e_vars, s_vars, b_vars>>


(***************************************************************************)
(* Properties of normalize_headers.                                        *)
(***************************************************************************)
\* the configured aliases, each with the canonical name of its field
ConfiguredPairs(config) ==
  {[name |-> config.canonical_fields[f].name,
    alias |-> config.canonical_fields[f].aliases[a]] :
     <<f, a>> \in {<<f, a>> \in (1..MaxFields) \X (1..MaxAliases) :
                     /\ f <= Len(config.canonical_fields)
                     /\ a <= Len(config.canonical_fields[f].aliases)}}

\* the n characters at p are part of a longer word: a word character sits
\* right before or right after them
EmbeddedInToken(text, p, n) == WordAt(text, p - 1) \/ WordAt(text, p + n)

\* alias occurs in text at p as the options ask: compared without case when
\* case_insensitive, and not inside a longer word when whole_word_match
OccursAsConfigured(text, p, alias, config) ==
  /\ p + Len(alias) - 1 <= Len(text)
  /\ \A i \in 1..Len(alias) :
       CharMatches(alias[i], text[p + i - 1], CaseInsensitive(config))
  /\ WholeWordMatch(config) => ~EmbeddedInToken(text, p, Len(alias))

\* the input characters still present in the result
Surviving == {n_origin[i] : i \in 1..Len(n_origin)} \ {0}

\* no configured alias pattern matches anywhere in text
NoAliasMatches(text, config) ==
  \A pair \in ConfiguredPairs(config) : \A p \in 1..Len(text) :
    ~MatchAt([lit |-> pair.alias, wb |-> WholeWordMatch(config)], text, p,
             CaseInsensitive(config))

\* no canonical field name is listed as an alias of any field
NoCanonicalIsAlias(config) ==
  \A f \in 1..Len(config.canonical_fields) :
    \A pair \in ConfiguredPairs(config) :
      config.canonical_fields[f].name # pair.alias

\* C1: when normalize_headers returns, every occurrence in the input of every
\* configured alias (matched under the options) has been replaced: none of
\* its characters is left in the result.
C1_EveryAliasOccurrenceReplaced ==
  n_pc \in {"returned", "again"} =>
    \A pair \in ConfiguredPairs(n_config) : \A p \in 1..Len(n_input) :
      OccursAsConfigured(n_input, p, pair.alias, n_config) =>
        \A q \in p..(p + Len(pair.alias) - 1) : q \notin Surviving

\* C2: with whole_word_match, no re.sub call replaces an occurrence of its
\* alias that is embedded in a longer token.
C2_NoEmbeddedOccurrenceReplaced ==
  WholeWordMatch(n_config) =>
    \A i \in 1..Len(n_lastMatches) :
      ~EmbeddedInToken(n_lastText, n_lastMatches[i], Len(n_lastAlias))

\* C3 as claimed: when no canonical name is listed as an alias, normalizing
\* the result again changes nothing.
C3_IdempotentWhenNoCanonicalIsAlias ==
  (n_pc = "again" /\ NoCanonicalIsAlias(n_config)) => n_out2 = n_out1

\* C3 amended: when no configured alias pattern matches in the result of the
\* first call, normalizing the result again changes nothing.
C3_IdempotentOnceNoAliasMatches ==
  (n_pc = "again" /\ NoAliasMatches(n_out1, n_config)) => n_out2 = n_out1

\* the first call replaced something, its result holds no alias match, and
\* the second call was made
C3_Witness ==
  /\ n_pc = "again"
  /\ n_out1 # n_input
  /\ NoCanonicalIsAlias(n_config)
  /\ NoAliasMatches(n_out1, n_config)
  /\ n_out2 = n_out1

\* C10: with a config that names no canonical field, whatever its options,
\* normalize_headers returns its input.
C10_EmptyConfigIsIdentity ==
  (n_config.canonical_fields = <<>> /\ n_pc \in {"returned", "again"}) =>
    /\ n_out1 = n_input
    /\ n_pc = "again" => n_out2 = n_input

\* a non-empty text went through normalize_headers with the fallback config
C10_Witness ==
  /\ n_pc = "returned"
  /\ n_config = FallbackConfig
  /\ Len(n_input) = MaxTextLen
  /\ n_out1 = n_input

(***************************************************************************)
(* PDF files and extract_text_with_pdfplumber.                             *)
(***************************************************************************)
DigitChars == <<"0", "1", "2", "3", "4", "5", "6", "7", "8", "9">>

RECURSIVE Str(_)
\* str(n) of a natural number
Str(n) ==
  IF n < 10 THEN <<DigitChars[n + 1]>>
  ELSE Str(n \div 10) \o <<DigitChars[(n % 10) + 1]>>

\* what page.extract_text gives for a page: a text (maybe ""), None, or an
\* exception
PageTexts == {<<>>, <<"a">>, <<"A", ".">>}
PageYields ==
  [yield : {"text"}, text : PageTexts]
    \cup {[yield |-> "None", text |-> <<>>], [yield |-> "raises", text |-> <<>>]}

\* a PDF file: whether pdfplumber.open succeeds, and its pages
Pdfs == [opens : BOOLEAN, pages : SeqsOf(PageYields, 0, MaxPages)]

\* str(e) of the exception pdfplumber raises
PdfErrorMessage == <<"b", "a", "d">>

\* f"--- Page {i+1} ---\n", n being i+1
PageMarker(n) == <<"-", "-", "-", " ", "P", "a", "g", "e", " ">> \o Str(n) \o <<" ", "-", "-", "-", "\n">>

NoTextPlaceholder == <<"[", "N", "o", " ", "t", "e", "x", "t", " ", "f", "o", "u", "n", "d", " ", "o", "n", " ", "t", "h", "i", "s", " ", "p", "a", "g", "e", "]">>

\* if page_text: (None and "" are both false)
HasText(page) == page.yield = "text" /\ page.text # <<>>

\* a page without text left out of the result (a plausible slip)
PageBlockSkippingEmpty(n, page) ==
  IF HasText(page) THEN PageMarker(n) \o page.text \o <<"\n">> ELSE <<>>

\* lines 18-23: what one iteration of the page loop appends
PageBlock(n, page) ==
  PageMarker(n) \o (IF HasText(page) THEN page.text \o <<"\n">>
                                      ELSE NoTextPlaceholder \o <<"\n">>)

RECURSIVE PagesFrom(_, _, _)
PagesFrom(pages, n, text) ==
  IF n > Len(pages) THEN text
  ELSE PagesFrom(pages, n + 1, text \o PageBlock(n, pages[n]))

\* whether the try block raises: open fails or a page's extract_text fails
ExtractionFails(pdf) ==
  ~pdf.opens \/ \E n \in 1..Len(pdf.pages) : pdf.pages[n].yield = "raises"

\* f"Error extracting {pdf_path}: {e}"
ErrorText(pdf_path) == <<"E", "r", "r", "o", "r", " ", "e", "x", "t", "r", "a", "c", "t", "i", "n", "g", " ">> \o pdf_path \o <<":", " ">> \o PdfErrorMessage

\* the exception let through instead of caught (a plausible slip)
extract_text_propagating(pdf_path, pdf) ==
  IF ExtractionFails(pdf)
  THEN [raised |-> TRUE, value |-> PdfErrorMessage]
  ELSE [raised |-> FALSE, value |-> PagesFrom(pdf.pages, 1, <<>>)]

\* extract_text_with_pdfplumber(pdf_path), pdf being the file at pdf_path;
\* raised tells whether an exception leaves the call, value is the returned
\* string (or the exception's message)
extract_text_with_pdfplumber(pdf_path, pdf) ==
  IF ExtractionFails(pdf)
  THEN [raised |-> FALSE, value |-> ErrorText(pdf_path)]
  ELSE [raised |-> FALSE, value |-> PagesFrom(pdf.pages, 1, <<>>)]


\* the path the extractor is called with
ExtractPath == <<"f", ".", "p", "d", "f">>

ExtIdle ==
  /\ e_pc = "idle"
  /\ e_pdf = [opens |-> FALSE, pages |-> <<>>]
  /\ e_n = 1
  /\ e_text = <<>>
  /\ e_result = <<>>

ExtInit ==
  /\ e_pc = "open"
  /\ e_pdf \in Pdfs
  /\ e_n = 1
  /\ e_text = <<>>
  /\ e_result = <<>>

\* lines 15-16: text = "" and pdfplumber.open
ExtOpen ==
  /\ e_pc = "open"
  /\ e_pc' = IF e_pdf.opens THEN "pages" ELSE "except"
  /\ UNCHANGED <<e_pdf, e_n, e_text, e_result>>
  /\ UNCHANGED <<n_vars, s_vars, b_vars>>

\* lines 17-23: one page
ExtPage ==
  /\ e_pc = "pages"
  /\ e_n <= Len(e_pdf.pages)
  /\ IF e_pdf.pages[e_n].yield = "raises"
     THEN /\ e_pc' = "except"
          /\ e_text' = e_text \o PageMarker(e_n)
          /\ UNCHANGED e_n
     ELSE /\ e_text' = e_text \o PageBlock(e_n, e_pdf.pages[e_n])
          /\ e_n' = e_n + 1
          /\ UNCHANGED e_pc
  /\ UNCHANGED <<e_pdf, e_result>>
  /\ UNCHANGED <<n_vars, s_vars, b_vars>>

\* line 24: return text
ExtReturn ==
  /\ e_pc = "pages"
  /\ e_n > Len(e_pdf.pages)
  /\ e_pc' = "returned"
  /\ e_result' = e_text
  /\ UNCHANGED <<e_pdf, e_n, e_text>>
  /\ UNCHANGED <<n_vars, s_vars, b_vars>>

\* lines 25-26: the error string is returned
ExtExcept ==
  /\ e_pc = "except"
  /\ e_pc' = "returned"
  /\ e_result' = ErrorText(ExtractPath)
  /\ UNCHANGED <<e_pdf, e_n, e_text>>
  /\ UNCHANGED <<n_vars, s_vars, b_vars>>


RECURSIVE ExpectedBlocks(_, _)
\* the blocks of pages n.. in page order: marker, then the page's text or,
\* when it has none, the placeholder
ExpectedBlocks(pages, n) ==
  IF n > Len(pages) THEN <<>>
  ELSE PageMarker(n)
         \o (IF pages[n].yield = "text" /\ Len(pages[n].text) > 0
             THEN pages[n].text ELSE NoTextPlaceholder)
         \o <<"\n">>
         \o ExpectedBlocks(pages, n + 1)

\* C8: for a readable PDF the returned string is exactly one block per page,
\* in page order: the marker of the page number, then the page's text or,
\* exactly when the page yields none, the placeholder.
C8_OneBlockPerPageInOrder ==
  (e_pc = "returned" /\ ~ExtractionFails(e_pdf)) =>
    e_result = ExpectedBlocks(e_pdf.pages, 1)

\* a readable PDF of MaxPages pages, with and without text, was extracted
C8_Witness ==
  /\ e_pc = "returned"
  /\ ~ExtractionFails(e_pdf)
  /\ Len(e_pdf.pages) = MaxPages
  /\ \E n \in 1..Len(e_pdf.pages) : HasText(e_pdf.pages[n])
  /\ \E n \in 1..Len(e_pdf.pages) : ~HasText(e_pdf.pages[n])
  /\ e_result = ExpectedBlocks(e_pdf.pages, 1)

\* the step-by-step run and the function the callers use agree
ExtractorAgrees ==
  e_pc = "returned" =>
    e_result = extract_text_with_pdfplumber(ExtractPath, e_pdf).value

(***************************************************************************)
(* Loading the header config.                                              *)
(***************************************************************************)
\* the configs header_config.yaml holds in the service and batch models
DeployedConfigs ==
  {FallbackConfig,
   [canonical_fields |-> <<[name |-> <<"X">>, aliases |-> <<<<"a">>>>]>>,
    options |-> NoOptions],
   [canonical_fields |-> <<[name |-> <<"X">>, aliases |-> <<<<"a">>>>]>>,
    options |-> [case_insensitive |-> TRUE, whole_word_match |-> FALSE]]}

\* what load_header_config does: returns the parsed mapping ("ok"), returns
\* None for an empty file ("empty"), raises FileNotFoundError ("missing") or
\* another exception ("unreadable")
LoadOutcomes == {"ok", "empty", "missing", "unreadable"}

NoConfig == [kind |-> "unset", dict |-> FallbackConfig]
NoneConfig == [kind |-> "None", dict |-> FallbackConfig]
DictConfig(c) == [kind |-> "dict", dict |-> c]

ConfigLoadError == <<"d", "e", "n", "i", "e", "d">>
\* str(e) of the AttributeError config.get raises on None
NoneGetError == <<"'", "N", "o", "n", "e", "T", "y", "p", "e", "'", " ", "o", "b", "j", "e", "c", "t", " ", "h", "a", "s", " ", "n", "o", " ", "a", "t", "t", "r", "i", "b", "u", "t", "e", " ", "'", "g", "e", "t", "'">>

\* normalize_headers on what load_header_config returned: config.get raises
\* when config is None
normalize_loaded(text, config) ==
  IF config.kind = "dict"
  THEN [raised |-> FALSE, value |-> normalize_headers(text, config.dict)]
  ELSE [raised |-> TRUE, value |-> NoneGetError]

(***************************************************************************)
(* The POST /extract handler.                                              *)
(***************************************************************************)
\* the suffix looked for anywhere in the name (a plausible slip)
IsPdfNameAnywhere(filename) ==
  \E i \in 1..Len(filename) :
    /\ i + 3 <= Len(filename)
    /\ SubSeq(Lower(filename), i, i + 3) = <<".", "p", "d", "f">>

\* filename.lower().endswith('.pdf')
IsPdfName(filename) == EndsWith(Lower(filename), <<".", "p", "d", "f">>)

UploadNames ==
  {<<"f", ".", "p", "d", "f">>, <<"f", ".", "P", "D", "F">>, <<"f", ".", "t", "x", "t">>,
   <<"p", "d", "f">>, <<"f", ".", "p", "d", "f", ".", "t", "x", "t">>, <<".", "P", "d", "f">>}

\* tmp.name
TmpPath == <<"/", "t", "m", "p", "/", "t", ".", "p", "d", "f">>

NoResponse == [status |-> 0, body |-> <<>>]
\* HTTPException(status_code=400, detail="File must be a PDF")
NotPdfResponse == [status |-> 400, body |-> <<"F", "i", "l", "e", " ", "m", "u", "s", "t", " ", "b", "e", " ", "a", " ", "P", "D", "F">>]
\* what the framework answers when an exception leaves the handler
UnhandledResponse == [status |-> 500, body |-> <<"I", "n", "t", "e", "r", "n", "a", "l", " ", "S", "e", "r", "v", "e", "r", " ", "E", "r", "r", "o", "r">>]

SvcIdle ==
  /\ s_pc = "idle"
  /\ s_filename = <<>>
  /\ s_pdf = [opens |-> FALSE, pages |-> <<>>]
  /\ s_tmp_created = FALSE
  /\ s_tmp_exists = FALSE
  /\ s_text = <<>>
  /\ s_config = NoConfig
  /\ s_normalized = <<>>
  /\ s_exc = <<>>
  /\ s_steps = {}
  /\ s_response = NoResponse

SvcInit ==
  /\ s_pc = "check"
  /\ s_filename \in UploadNames
  /\ s_pdf \in Pdfs
  /\ s_tmp_created = FALSE
  /\ s_tmp_exists = FALSE
  /\ s_text = <<>>
  /\ s_config = NoConfig
  /\ s_normalized = <<>>
  /\ s_exc = <<>>
  /\ s_steps = {}
  /\ s_response = NoResponse

\* lines 96-97
SvcCheckFilename ==
  /\ s_pc = "check"
  /\ s_steps' = s_steps \cup {"check"}
  /\ IF IsPdfName(s_filename)
     THEN /\ s_pc' = "save"
          /\ UNCHANGED s_response
     ELSE /\ s_pc' = "done"
          /\ s_response' = NotPdfResponse
  /\ UNCHANGED <<s_filename, s_pdf, s_tmp_created, s_tmp_exists, s_text,
                 s_config, s_normalized, s_exc>>
  /\ UNCHANGED <<n_vars, e_vars, b_vars>>

\* lines 100-102: the temporary file is created (delete=False) and the upload
\* copied into it; a failing copy leaves the with block and the handler, the
\* try block not being entered yet
SvcSaveUpload ==
  /\ s_pc = "save"
  /\ s_steps' = s_steps \cup {"save"}
  /\ s_tmp_created' = TRUE
  /\ s_tmp_exists' = TRUE
  /\ \E copied \in BOOLEAN :
       IF copied
       THEN /\ s_pc' = "extract"
            /\ UNCHANGED s_response
       ELSE /\ s_pc' = "done"
            /\ s_response' = UnhandledResponse
  /\ UNCHANGED <<s_filename, s_pdf, s_text, s_config, s_normalized, s_exc>>
  /\ UNCHANGED <<n_vars, e_vars, b_vars>>

\* line 106
SvcExtract ==
  /\ s_pc = "extract"
  /\ s_steps' = s_steps \cup {"extract"}
  /\ LET r == extract_text_with_pdfplumber(TmpPath, s_pdf) IN
     IF r.raised
     THEN /\ s_pc' = "except"
          /\ s_exc' = r.value
          /\ UNCHANGED s_text
     ELSE /\ s_pc' = "load"
          /\ s_text' = r.value
          /\ UNCHANGED s_exc
  /\ UNCHANGED <<s_filename, s_pdf, s_tmp_created, s_tmp_exists, s_config,
                 s_normalized, s_response>>
  /\ UNCHANGED <<n_vars, e_vars, b_vars>>

\* lines 109-112
SvcLoadConfig ==
  /\ s_pc = "load"
  /\ s_steps' = s_steps \cup {"load"}
  /\ \E outcome \in LoadOutcomes :
       CASE outcome = "ok" ->
              /\ \E c \in DeployedConfigs : s_config' = DictConfig(c)
              /\ s_pc' = "normalize"
              /\ UNCHANGED s_exc
         [] outcome = "empty" ->
              /\ s_config' = NoneConfig
              /\ s_pc' = "normalize"
              /\ UNCHANGED s_exc
         [] outcome = "missing" ->
              /\ s_config' = DictConfig(FallbackConfig)
              /\ s_pc' = "normalize"
              /\ UNCHANGED s_exc
         [] outcome = "unreadable" ->
              /\ s_pc' = "except"
              /\ s_exc' = ConfigLoadError
              /\ UNCHANGED s_config
  /\ UNCHANGED <<s_filename, s_pdf, s_tmp_created, s_tmp_exists, s_text,
                 s_normalized, s_response>>
  /\ UNCHANGED <<n_vars, e_vars, b_vars>>

\* line 114
SvcNormalize ==
  /\ s_pc = "normalize"
  /\ s_steps' = s_steps \cup {"normalize"}
  /\ LET r == normalize_loaded(s_text, s_config) IN
     IF r.raised
     THEN /\ s_pc' = "except"
          /\ s_exc' = r.value
          /\ UNCHANGED s_normalized
     ELSE /\ s_pc' = "return"
          /\ s_normalized' = r.value
          /\ UNCHANGED s_exc
  /\ UNCHANGED <<s_filename, s_pdf, s_tmp_created, s_tmp_exists, s_text,
                 s_config, s_response>>
  /\ UNCHANGED <<n_vars, e_vars, b_vars>>

\* line 116
SvcReturn ==
  /\ s_pc = "return"
  /\ s_pc' = "finally"
  /\ s_response' = [status |-> 200, body |-> s_normalized]
  /\ UNCHANGED <<s_filename, s_pdf, s_tmp_created, s_tmp_exists, s_text,
                 s_config, s_normalized, s_exc, s_steps>>
  /\ UNCHANGED <<n_vars, e_vars, b_vars>>

\* lines 117-118
SvcExcept ==
  /\ s_pc = "except"
  /\ s_pc' = "finally"
  /\ s_response' = [status |-> 500, body |-> s_exc]
  /\ UNCHANGED <<s_filename, s_pdf, s_tmp_created, s_tmp_exists, s_text,
                 s_config, s_normalized, s_exc, s_steps>>
  /\ UNCHANGED <<n_vars, e_vars, b_vars>>

\* lines 119-121
SvcFinally ==
  /\ s_pc = "finally"
  /\ s_pc' = "done"
  /\ s_tmp_exists' = FALSE
  /\ UNCHANGED <<s_filename, s_pdf, s_tmp_created, s_text, s_config,
                 s_normalized, s_exc, s_steps, s_response>>
  /\ UNCHANGED <<n_vars, e_vars, b_vars>>

\* C4: when the request is finished and the temporary file was created, the
\* temporary file no longer exists.
C4_TempFileRemovedOnEveryExit ==
  (s_pc = "done" /\ s_tmp_created) => ~s_tmp_exists

\* C5: when extraction or normalization failed, the response is a 500 whose
\* detail is the failure message, never a success payload.
C5_FailureAnswers500 ==
  s_pc = "done" =>
    /\ ("extract" \in s_steps /\ ExtractionFails(s_pdf)) =>
         /\ s_response.status = 500
         /\ s_response.body \in {PdfErrorMessage, ErrorText(TmpPath)}
    /\ ("normalize" \in s_steps /\ s_config.kind # "dict") =>
         /\ s_response.status = 500
         /\ s_response.body = NoneGetError

\* filename ends in ".pdf", compared without case
NameEndsInDotPdf(filename) ==
  /\ Len(filename) >= 4
  /\ LowerChar(filename[Len(filename) - 3]) = "."
  /\ LowerChar(filename[Len(filename) - 2]) = "p"
  /\ LowerChar(filename[Len(filename) - 1]) = "d"
  /\ LowerChar(filename[Len(filename)]) = "f"

\* C9: an upload whose filename does not end in ".pdf" is answered 400 before
\* anything else: no temporary file, no extraction, config load or
\* normalization.
C9_NonPdfRejectedFirst ==
  ~NameEndsInDotPdf(s_filename) =>
    /\ s_steps \subseteq {"check"}
    /\ ~s_tmp_created
    /\ ~s_tmp_exists
    /\ s_text = <<>> /\ s_config = NoConfig /\ s_normalized = <<>>
    /\ s_pc \in {"idle", "check", "done"}
    /\ s_pc = "done" => s_response = NotPdfResponse

\* a non-PDF upload was answered
C9_Witness ==
  /\ s_pc = "done"
  /\ ~NameEndsInDotPdf(s_filename)
  /\ s_steps = {"check"}
  /\ s_response.status = 400
  /\ ~s_tmp_created

(***************************************************************************)
(* Batch mode: file discovery, output names and the main loop.             *)
(***************************************************************************)
\* a file under base_dir: the directories below "." and the file name
TreeDirs == {<<>>, <<<<"a">>, <<"x">>>>, <<<<"b">>, <<"x">>>>}
TreeNames == {<<"f", ".", "p", "d", "f">>, <<"f", ".", "P", "D", "F">>, <<"g", ".", "t", "x", "t">>}
CandidateFiles == [dirs : TreeDirs, file : TreeNames]
Trees == {t \in SUBSET CandidateFiles : Cardinality(t) <= MaxFiles}

\* name of the working directory, which abspath puts above a top-level file
CwdName == <<"w">>
\* output_dir
OutputDir == <<"e", "x", "t", "r", "a", "c", "t", "e", "d", "_", "t", "e", "x", "t", "s", "_", "p", "d", "f", "p", "l", "u", "m", "b", "e", "r">>

\* os.path.join(root, file), root being "." or "./d1/d2"
PathString(path) ==
  <<".">> \o Concat([i \in 1..Len(path.dirs) |-> <<"/">> \o path.dirs[i]])
          \o <<"/">> \o path.file

\* the files find_all_pdfs appends, lines 36-38
PdfFilesOf(tree) == {f \in tree : IsPdfName(f.file)}

\* the orders in which os.walk can deliver the files of S
Orderings(S) ==
  {q \in [1..Cardinality(S) -> S] : \A i, j \in 1..Cardinality(S) : i # j => q[i] # q[j]}

\* find_all_pdfs(base_dir): the PDF files in some walk order
find_all_pdfs(tree) == Orderings(PdfFilesOf(tree))

\* os.path.splitext(name)[0]: name up to its last dot, a dot that only
\* follows dots not counting
SplitextRoot(name) ==
  LET dots == {i \in 1..Len(name) :
                 name[i] = "." /\ \E j \in 1..(i - 1) : name[j] # "."}
  IN IF dots = {} THEN name
     ELSE SubSeq(name, 1, (CHOOSE i \in dots : \A j \in dots : j <= i) - 1)

\* os.path.basename(os.path.dirname(os.path.abspath(pdf_path)))
ParentFolder(path) ==
  IF path.dirs = <<>> THEN CwdName ELSE path.dirs[Len(path.dirs)]

\* get_unique_output_name(pdf_path, output_dir)
get_unique_output_name(path, output_dir) ==
  output_dir \o <<"/">> \o ParentFolder(path) \o <<"_">>
             \o SplitextRoot(path.file) \o <<".", "t", "x", "t">>

\* lines 152-153: the source line and the separator line
FileHeader(path) ==
  <<"S", "o", "u", "r", "c", "e", ":", " ">> \o PathString(path) \o <<"\n">>
    \o [i \in 1..40 |-> "="] \o <<"\n", "\n">>

\* the PDF files of the batch model
BatchPdfs ==
  {[opens |-> FALSE, pages |-> <<>>],
   [opens |-> TRUE, pages |-> <<[yield |-> "text", text |-> <<"a">>]>>],
   [opens |-> TRUE, pages |-> <<[yield |-> "raises", text |-> <<>>]>>]}

BatchIdle ==
  /\ b_pc = "idle"
  /\ b_tree = {}
  /\ b_pdfs = <<>>
  /\ b_i = 1
  /\ b_config = NoConfig
  /\ b_out = {}
  /\ b_writes = <<>>

BatchInit ==
  /\ b_pc = "find"
  /\ b_tree \in Trees
  /\ b_pdfs = <<>>
  /\ b_i = 1
  /\ b_config = NoConfig
  /\ b_out = {}
  /\ b_writes = <<>>

\* lines 129-138: the output directory is made, the PDFs are found, and the
\* run ends when there is none
BatchFind ==
  /\ b_pc = "find"
  /\ \E pdfs \in find_all_pdfs(b_tree) :
       /\ b_pdfs' = pdfs
       /\ b_pc' = IF pdfs = <<>> THEN "exited" ELSE "load"
  /\ UNCHANGED <<b_tree, b_i, b_config, b_out, b_writes>>
  /\ UNCHANGED <<n_vars, e_vars, s_vars>>

\* line 142: an exception of load_header_config ends the run
BatchLoadConfig ==
  /\ b_pc = "load"
  /\ \E outcome \in LoadOutcomes :
       CASE outcome = "ok" ->
              /\ \E c \in DeployedConfigs : b_config' = DictConfig(c)
              /\ b_pc' = "loop"
         [] outcome = "empty" ->
              /\ b_config' = NoneConfig
              /\ b_pc' = "loop"
         [] outcome \in {"missing", "unreadable"} ->
              /\ b_pc' = "crashed"
              /\ UNCHANGED b_config
  /\ UNCHANGED <<b_tree, b_pdfs, b_i, b_out, b_writes>>
  /\ UNCHANGED <<n_vars, e_vars, s_vars>>

\* lines 144-154: one PDF; an exception leaving a call ends the run
BatchProcess ==
  /\ b_pc = "loop"
  /\ b_i <= Len(b_pdfs)
  /\ \E pdf \in BatchPdfs :
       LET pdf_file == b_pdfs[b_i]
           output_path == get_unique_output_name(pdf_file, OutputDir)
           raw == extract_text_with_pdfplumber(PathString(pdf_file), pdf)
           normalized == normalize_loaded(raw.value, b_config)
       IN IF raw.raised \/ normalized.raised
          THEN /\ b_pc' = "crashed"
               /\ UNCHANGED <<b_i, b_out, b_writes>>
          ELSE LET content == FileHeader(pdf_file) \o normalized.value IN
               /\ b_out' = {f \in b_out : f.path # output_path}
                             \cup {[path |-> output_path, content |-> content]}
               /\ b_writes' = Append(b_writes,
                                [pdf_file |-> pdf_file,
                                 output_path |-> output_path,
                                 failed |-> ExtractionFails(pdf),
                                 content |-> content])
               /\ b_i' = b_i + 1
               /\ UNCHANGED b_pc
  /\ UNCHANGED <<b_tree, b_pdfs, b_config>>
  /\ UNCHANGED <<n_vars, e_vars, s_vars>>

\* the loop is over
BatchFinish ==
  /\ b_pc = "loop"
  /\ b_i > Len(b_pdfs)
  /\ b_pc' = "done"
  /\ UNCHANGED <<b_tree, b_pdfs, b_i, b_config, b_out, b_writes>>
  /\ UNCHANGED <<n_vars, e_vars, s_vars>>

\* C6: distinct PDF paths of the list get distinct output paths, and after the
\* run the output directory holds one file per PDF.
C6_OneOutputFilePerPdf ==
  /\ \A i, j \in 1..Len(b_pdfs) :
       i # j => get_unique_output_name(b_pdfs[i], OutputDir)
                  # get_unique_output_name(b_pdfs[j], OutputDir)
  /\ b_pc = "done" => Cardinality(b_out) = Len(b_pdfs)

\* every PDF of the list was written for, in order, and each failing one
\* got the header followed by body(its error string)
EveryPdfWritten(Body(_)) ==
  /\ Len(b_writes) = Len(b_pdfs)
  /\ \A i \in 1..Len(b_pdfs) :
       /\ b_writes[i].pdf_file = b_pdfs[i]
       /\ b_writes[i].failed =>
            b_writes[i].content =
              FileHeader(b_pdfs[i]) \o Body(ErrorText(PathString(b_pdfs[i])))

AsReturned(text) == text
AsNormalized(text) == normalize_headers(text, b_config.dict)

InitNormalize == NormInit /\ ExtIdle /\ SvcIdle /\ BatchIdle
NextNormalize == NormSubstitute \/ NormReturn \/ NormAgain
SpecNormalize == InitNormalize /\ [][NextNormalize]_vars

InitExtract == ExtInit /\ NormIdle /\ SvcIdle /\ BatchIdle
NextExtract == ExtOpen \/ ExtPage \/ ExtReturn \/ ExtExcept
SpecExtract == InitExtract /\ [][NextExtract]_vars

InitService == SvcInit /\ NormIdle /\ ExtIdle /\ BatchIdle
NextService ==
  \/ SvcCheckFilename
  \/ SvcSaveUpload
  \/ SvcExtract
  \/ SvcLoadConfig
  \/ SvcNormalize
  \/ SvcReturn
  \/ SvcExcept
  \/ SvcFinally
SpecService == InitService /\ [][NextService]_vars
InitBatch == BatchInit /\ NormIdle /\ ExtIdle /\ SvcIdle
NextBatch == BatchFind \/ BatchLoadConfig \/ BatchProcess \/ BatchFinish
SpecBatch == InitBatch /\ [][NextBatch]_vars
====
